---- MODULE Spec2Model ----
(***************************************************************************)
(* A model of prom2jsonrs (src/src/lib.rs): the parser of the Prometheus   *)
(* text exposition format.                                                 *)
(*                                                                         *)
(* A line of text is a sequence of one-character strings, a document is a  *)
(* sequence of lines (what s.lines() yields).  The three regular           *)
(* expressions of lib.rs are modelled by what the regex crate computes     *)
(* for them: an unanchored search for the leftmost match, greedy           *)
(* repetitions, alternatives tried in order.                               *)
(***************************************************************************)
EXTENDS Integers, Sequences, FiniteSets, TLC

VARIABLES
    pc,                 \* where the modelled call stands
    arg,                \* the argument of the function-level calls
    ret,                \* the value a function-level call returned
    read,               \* from_string: the lines of s.lines() consumed so far
    metrics,            \* from_string: let mut metrics
    metric_lines,       \* from_string: let mut metric_lines
    num_comment_lines,  \* from_string: let mut num_comment_lines
    chunks              \* from_string: the arguments of the from_raw calls made so far

vars == <<pc, arg, ret, read, metrics, metric_lines, num_comment_lines, chunks>>

(***************************************************************************)
(* Characters and character classes of the regular expressions.            *)
(***************************************************************************)
Lower == {"a","b","c","d","e","f","g","h","i","j","k","l","m",
          "n","o","p","q","r","s","t","u","v","w","x","y","z"}

Upper == {"A","B","C","D","E","F","G","H","I","J","K","L","M",
          "N","O","P","Q","R","S","T","U","V","W","X","Y","Z"}

\* \d
Digit == {"0","1","2","3","4","5","6","7","8","9"}

\* \s, as far as one line can hold it
Whitespace == {" ", "\t"}

\* [a-zA-Z_:]
IdentStart == Lower \cup Upper \cup {"_", ":"}

\* [a-zA-Z0-9_:]
IdentChar == IdentStart \cup Digit

\* [\d.]
NumChar == Digit \cup {"."}

(***************************************************************************)
(* Helpers on sequences of characters.                                     *)
(***************************************************************************)
\* the character of s at position i, or "" past the end of s
At(s, i) == IF i >= 1 /\ i <= Len(s) THEN s[i] ELSE ""

\* the first position >= i of s whose character is not in class, Len(s)+1 if none:
\* where a greedy class* that starts at i stops
RunEnd(s, i, class) ==
    LET stops == {j \in i..Len(s) : s[j] \notin class}
    IN  IF stops = {} THEN Len(s) + 1
        ELSE CHOOSE j \in stops : \A k \in stops : j <= k

Min(S) == CHOOSE x \in S : \A y \in S : x <= y

Max(S) == CHOOSE x \in S : \A y \in S : x >= y

\* str::starts_with
StartsWith(s, prefix) ==
    /\ Len(prefix) <= Len(s)
    /\ SubSeq(s, 1, Len(prefix)) = prefix

(***************************************************************************)
(* The value group (-?[\d.]+(?:e-?\d+)?|NaN) matched at position p of s:   *)
(* the position right after the match, 0 when there is no match.           *)
(***************************************************************************)
ValueEnd(s, p) ==
    LET n == IF At(s, p) = "-" THEN p + 1 ELSE p        \* -?
        q == RunEnd(s, n, NumChar)                      \* [\d.]+
        d == IF At(s, q) = "e"                          \* e-?
             THEN (IF At(s, q + 1) = "-" THEN q + 2 ELSE q + 1)
             ELSE 0
        r == IF d = 0 THEN 0 ELSE RunEnd(s, d, Digit)   \* \d+
    IN  IF q > n
        THEN (IF d # 0 /\ r > d THEN r ELSE q)
        ELSE IF At(s, p) = "N" /\ At(s, p + 1) = "a" /\ At(s, p + 2) = "N" THEN p + 3
        ELSE 0

(***************************************************************************)
(* METRIC_REGEX_NO_LABEL.captures(s): [matched, name, value].              *)
(***************************************************************************)
NoMatch == [matched |-> FALSE, c1 |-> <<>>, c2 |-> <<>>]

NoLabelAt(s, i) ==
    LET j == RunEnd(s, i + 1, IdentChar)
    IN  /\ s[i] \in IdentStart
        /\ At(s, j) \in Whitespace
        /\ ValueEnd(s, j + 1) # 0

METRIC_REGEX_NO_LABEL(s) ==
    LET starts == {i \in 1..Len(s) : NoLabelAt(s, i)}
    IN  IF starts = {} THEN NoMatch
        ELSE LET i == Min(starts)
                 j == RunEnd(s, i + 1, IdentChar)
             IN  [matched |-> TRUE,
                  c1 |-> SubSeq(s, i, j - 1),
                  c2 |-> SubSeq(s, j + 1, ValueEnd(s, j + 1) - 1)]

(***************************************************************************)
(* METRIC_REGEX_WITH_LABEL.captures(s): [matched, label text, value].      *)
(* The greedy .* ends at the last closing brace that a blank and a value   *)
(* follow.                                                                 *)
(***************************************************************************)
Closers(s, j) ==
    {k \in (j + 1)..Len(s) :
        /\ s[k] = "}"
        /\ At(s, k + 1) \in Whitespace
        /\ ValueEnd(s, k + 2) # 0}

WithLabelAt(s, i) ==
    LET j == RunEnd(s, i + 1, IdentChar)
    IN  /\ s[i] \in IdentStart
        /\ At(s, j) = "{"
        /\ Closers(s, j) # {}

METRIC_REGEX_WITH_LABEL(s) ==
    LET starts == {i \in 1..Len(s) : WithLabelAt(s, i)}
    IN  IF starts = {} THEN NoMatch
        ELSE LET i == Min(starts)
                 j == RunEnd(s, i + 1, IdentChar)
                 k == Max(Closers(s, j))
             IN  [matched |-> TRUE,
                  c1 |-> SubSeq(s, j + 1, k - 1),
                  c2 |-> SubSeq(s, k + 2, ValueEnd(s, k + 2) - 1)]

(***************************************************************************)
(* LABELS_REGEX.captures_iter(t): the sequence of <<key, value>> of the    *)
(* successive non-overlapping matches of key, =, quote, value, quote: the  *)
(* key a run of [a-zA-Z0-9_:] that may be empty, the value a run of one or *)
(* more characters other than the double quote.                            *)
(***************************************************************************)
\* the first position >= i of t that holds a double quote, Len(t)+1 if none:
\* where a greedy run of non-quote characters that starts at i stops
QuoteFrom(t, i) ==
    LET stops == {j \in i..Len(t) : t[j] = "\""}
    IN  IF stops = {} THEN Len(t) + 1
        ELSE CHOOSE j \in stops : \A k \in stops : j <= k

\* the position of the closing quote of a match that starts at i, 0 if none
LabelAt(t, i) ==
    LET e == RunEnd(t, i, IdentChar)            \* the key
        f == QuoteFrom(t, e + 2)                \* the value
    IN  IF /\ At(t, e) = "="
           /\ At(t, e + 1) = "\""
           /\ f > e + 2
           /\ At(t, f) = "\""
        THEN f ELSE 0

RECURSIVE LabelsFrom(_, _)
LabelsFrom(t, p) ==
    LET starts == {i \in p..Len(t) : LabelAt(t, i) # 0}
    IN  IF starts = {} THEN <<>>
        ELSE LET i == Min(starts)
                 e == RunEnd(t, i, IdentChar)
                 f == LabelAt(t, i)
             IN  <<[key |-> SubSeq(t, i, e - 1), value |-> SubSeq(t, e + 2, f - 1)]>>
                 \o LabelsFrom(t, f + 1)

LABELS_REGEX(t) == LabelsFrom(t, 1)

(***************************************************************************)
(* HashMap<String, String> and Option<Labels>.                             *)
(***************************************************************************)
EmptyMap == <<>>

\* HashMap::insert: the last write of a key wins
Insert(m, k, v) == [x \in (DOMAIN m) \cup {k} |-> IF x = k THEN v ELSE m[x]]

None == [some |-> FALSE, map |-> EmptyMap]

Some(m) == [some |-> TRUE, map |-> m]

RECURSIVE InsertAll(_, _, _)
InsertAll(m, caps, i) ==
    IF i > Len(caps) THEN m
    ELSE InsertAll(Insert(m, caps[i].key, caps[i].value), caps, i + 1)

(***************************************************************************)
(* MetricLike::parse_from_string: [panic, value, labels].                  *)
(***************************************************************************)
Panicked == [panic |-> TRUE, value |-> <<>>, labels |-> None]

\* the if let chain of parse_from_string, given what the two captures calls return
ParseCaps(no_label, with_label) ==
    IF no_label.matched
    THEN [panic |-> FALSE, value |-> no_label.c2, labels |-> None]
    ELSE IF with_label.matched
    THEN [panic |-> FALSE, value |-> with_label.c2,
          labels |-> Some(InsertAll(EmptyMap, LABELS_REGEX(with_label.c1), 1))]
    ELSE Panicked

parse_from_string(s) == ParseCaps(METRIC_REGEX_NO_LABEL(s), METRIC_REGEX_WITH_LABEL(s))

\* Metric::from_string
MetricOf(p) ==
    [panic |-> p.panic, type |-> "Metric", labels |-> p.labels, value |-> p.value]

Metric_from_string(s) == MetricOf(parse_from_string(s))

(***************************************************************************)
(* Summary::from_raw and Histogram::from_raw.  The accumulator acc holds   *)
(* the locals sum, count, labels and quantiles/buckets, and panic.         *)
(***************************************************************************)
Str_sum == <<"_", "s", "u", "m">>

Str_count == <<"_", "c", "o", "u", "n", "t">>

Str_quantile == <<"q", "u", "a", "n", "t", "i", "l", "e">>

Str_le == <<"l", "e">>

\* the for loop over LABELS_REGEX.captures_iter(&caps[1]) of Summary::from_raw
RECURSIVE SummaryLabels(_, _, _)
SummaryLabels(acc, caps, i) ==
    IF i > Len(caps) THEN acc
    ELSE LET key == caps[i].key
             value == caps[i].value
         IN  SummaryLabels(
                 IF key = Str_quantile
                 THEN [acc EXCEPT !.quantiles = Insert(@, key, value)]
                 ELSE [acc EXCEPT !.labels = Insert(@, key, value)],
                 caps, i + 1)

\* one pass of the for loop over raw_lines of Summary::from_raw
\* parsed is what parse_from_string(raw_line) returns and caps what
\* METRIC_REGEX_WITH_LABEL.captures(raw_line) returns, where the arm asks for it
SummaryArm(metric_name, raw_line, acc, parsed, caps) ==
    IF StartsWith(raw_line, metric_name \o Str_sum)
    THEN (IF parsed.panic THEN [acc EXCEPT !.panic = TRUE]
          ELSE [acc EXCEPT !.sum = parsed.value])
    ELSE IF StartsWith(raw_line, metric_name \o Str_count)
    THEN (IF parsed.panic THEN [acc EXCEPT !.panic = TRUE]
          ELSE [acc EXCEPT !.count = parsed.value])
    ELSE IF caps.matched
    THEN SummaryLabels(acc, LABELS_REGEX(caps.c1), 1)
    ELSE [acc EXCEPT !.panic = TRUE]

SummaryLine(metric_name, raw_line, acc) ==
    SummaryArm(metric_name, raw_line, acc,
               parse_from_string(raw_line), METRIC_REGEX_WITH_LABEL(raw_line))

RECURSIVE SummaryLoop(_, _, _, _)
SummaryLoop(metric_name, raw_lines, i, acc) ==
    IF i > Len(raw_lines) \/ acc.panic THEN acc
    ELSE SummaryLoop(metric_name, raw_lines, i + 1,
                     SummaryLine(metric_name, raw_lines[i], acc))

\* the Summary { ... } the function returns from its locals
SummaryOf(acc) ==
    [panic |-> acc.panic, type |-> "Summary", sum |-> acc.sum, count |-> acc.count,
     labels |-> Some(acc.labels), quantiles |-> acc.quantiles]

Summary_from_raw(metric_name, raw_lines) ==
    SummaryOf(SummaryLoop(metric_name, raw_lines, 1,
                   [panic |-> FALSE, sum |-> <<>>, count |-> <<>>,
                    labels |-> EmptyMap, quantiles |-> EmptyMap]))

\* HistogramLabels with the insert of Summary::from_raw: the le label kept under
\* its own name, mapped to the bound
RECURSIVE HistogramLabelsAsSummary(_, _, _, _)
HistogramLabelsAsSummary(acc, caps, sample, i) ==
    IF i > Len(caps) THEN acc
    ELSE HistogramLabelsAsSummary(
             IF caps[i].key = Str_le
             THEN [acc EXCEPT !.buckets = Insert(@, caps[i].key, caps[i].value)]
             ELSE [acc EXCEPT !.labels = Insert(@, caps[i].key, caps[i].value)],
             caps, sample, i + 1)

\* the for loop over LABELS_REGEX.captures_iter(&caps[1]) of Histogram::from_raw
RECURSIVE HistogramLabels(_, _, _, _)
HistogramLabels(acc, caps, sample, i) ==
    IF i > Len(caps) THEN acc
    ELSE LET key == caps[i].key
             value == caps[i].value
         IN  HistogramLabels(
                 IF key = Str_le
                 THEN [acc EXCEPT !.buckets = Insert(@, value, sample)]
                 ELSE [acc EXCEPT !.labels = Insert(@, key, value)],
                 caps, sample, i + 1)

\* one pass of the for loop over raw_lines of Histogram::from_raw
\* parsed is what parse_from_string(raw_line) returns and caps what
\* METRIC_REGEX_WITH_LABEL.captures(raw_line) returns, where the arm asks for it
HistogramArm(metric_name, raw_line, acc, parsed, caps) ==
    IF StartsWith(raw_line, metric_name \o Str_sum)
    THEN (IF parsed.panic THEN [acc EXCEPT !.panic = TRUE]
          ELSE [acc EXCEPT !.sum = parsed.value])
    ELSE IF StartsWith(raw_line, metric_name \o Str_count)
    THEN (IF parsed.panic THEN [acc EXCEPT !.panic = TRUE]
          ELSE [acc EXCEPT !.count = parsed.value])
    ELSE IF caps.matched
    THEN HistogramLabels(acc, LABELS_REGEX(caps.c1), caps.c2, 1)
    ELSE [acc EXCEPT !.panic = TRUE]

HistogramLine(metric_name, raw_line, acc) ==
    HistogramArm(metric_name, raw_line, acc,
               parse_from_string(raw_line), METRIC_REGEX_WITH_LABEL(raw_line))

RECURSIVE HistogramLoop(_, _, _, _)
HistogramLoop(metric_name, raw_lines, i, acc) ==
    IF i > Len(raw_lines) \/ acc.panic THEN acc
    ELSE HistogramLoop(metric_name, raw_lines, i + 1,
                       HistogramLine(metric_name, raw_lines[i], acc))

\* the Histogram { ... } the function returns from its locals
HistogramOf(acc) ==
    [panic |-> acc.panic, type |-> "Histogram", sum |-> acc.sum, count |-> acc.count,
     labels |-> Some(acc.labels), buckets |-> acc.buckets]

Histogram_from_raw(metric_name, raw_lines) ==
    HistogramOf(HistogramLoop(metric_name, raw_lines, 1,
                   [panic |-> FALSE, sum |-> <<>>, count |-> <<>>,
                    labels |-> EmptyMap, buckets |-> EmptyMap]))

(***************************************************************************)
(* MetricFamily.                                                           *)
(***************************************************************************)
\* str::split_whitespace, from position p on
RECURSIVE SplitFrom(_, _)
SplitFrom(s, p) ==
    LET starts == {i \in p..Len(s) : s[i] \notin Whitespace}
    IN  IF starts = {} THEN <<>>
        ELSE LET i == Min(starts)
                 blanks == {j \in i..Len(s) : s[j] \in Whitespace}
                 e == IF blanks = {} THEN Len(s) + 1 ELSE Min(blanks)
             IN  <<SubSeq(s, i, e - 1)>> \o SplitFrom(s, e)

split_whitespace(s) == SplitFrom(s, 1)

\* [&str]::join(" ")
RECURSIVE Join(_)
Join(tags) ==
    IF Len(tags) = 0 THEN <<>>
    ELSE IF Len(tags) = 1 THEN tags[1]
    ELSE tags[1] \o <<" ">> \o Join(Tail(tags))

Str_gauge == <<"g", "a", "u", "g", "e">>

Str_counter == <<"c", "o", "u", "n", "t", "e", "r">>

Str_histogram == <<"h", "i", "s", "t", "o", "g", "r", "a", "m">>

Str_summary == <<"s", "u", "m", "m", "a", "r", "y">>

\* TypeOfTags without the "counter" arm: counter falls to the unknown types
TypeOfTagsNoCounter(tags, type_raw) ==
    IF Len(tags) < 4 THEN [panic |-> TRUE, name |-> <<>>, metric_type |-> "none"]
    ELSE IF type_raw = Str_gauge
    THEN [panic |-> FALSE, name |-> tags[3], metric_type |-> "Gauge"]
    ELSE IF type_raw = Str_histogram
    THEN [panic |-> FALSE, name |-> tags[3], metric_type |-> "Histogram"]
    ELSE IF type_raw = Str_summary
    THEN [panic |-> FALSE, name |-> tags[3], metric_type |-> "Summary"]
    ELSE [panic |-> TRUE, name |-> <<>>, metric_type |-> "none"]

\* the body of MetricFamily::metric_name_and_type: tags[2] and tags[3] of the
\* source are tags[3] and tags[4] here (sequences start at 1), type_raw is tags[4]
TypeOfTags(tags, type_raw) ==
    IF Len(tags) < 4 THEN [panic |-> TRUE, name |-> <<>>, metric_type |-> "none"]
    ELSE IF type_raw = Str_gauge
    THEN [panic |-> FALSE, name |-> tags[3], metric_type |-> "Gauge"]
    ELSE IF type_raw = Str_counter
    THEN [panic |-> FALSE, name |-> tags[3], metric_type |-> "Gauge"]
    ELSE IF type_raw = Str_histogram
    THEN [panic |-> FALSE, name |-> tags[3], metric_type |-> "Histogram"]
    ELSE IF type_raw = Str_summary
    THEN [panic |-> FALSE, name |-> tags[3], metric_type |-> "Summary"]
    ELSE [panic |-> TRUE, name |-> <<>>, metric_type |-> "none"]

metric_name_and_type(type_line) ==
    TypeOfTags(split_whitespace(type_line), At(split_whitespace(type_line), 4))

\* tags[3..].join(" "): the slice panics when tags has under 3 entries
HelpOfTags(tags) ==
    IF Len(tags) < 3 THEN [panic |-> TRUE, help |-> <<>>]
    ELSE [panic |-> FALSE, help |-> Join(SubSeq(tags, 4, Len(tags)))]

\* MetricFamily::metric_help_fron_raw
metric_help_fron_raw(help_line) == HelpOfTags(split_whitespace(help_line))

\* a parsed record as it is stored in data: without the panic flag of the model
Stored(r) == [f \in (DOMAIN r) \ {"panic"} |-> r[f]]

\* data.push(Box::new(m)), unless making m panicked
PushMetric(acc, m) ==
    IF m.panic THEN [acc EXCEPT !.panic = TRUE]
    ELSE [acc EXCEPT !.data = Append(@, Stored(m))]

\* the MetricType::Gauge arm of MetricFamily::from_raw, from raw[i] on
RECURSIVE GaugeLoop(_, _, _)
GaugeLoop(raw, i, acc) ==
    IF i > Len(raw) \/ acc.panic THEN acc
    ELSE GaugeLoop(raw, i + 1, PushMetric(acc, Metric_from_string(raw[i])))

\* Histogram::from_raw or Summary::from_raw, as the arm of the match calls it
Record_from_raw(metric_type, metric_name, lines) ==
    IF metric_type = "Histogram" THEN Histogram_from_raw(metric_name, lines)
    ELSE Summary_from_raw(metric_name, lines)

\* what a pass of the loop does on a line that starts with count_prefix:
\* acc.lines already holds the line
\* PushRecord without histogram_lines = Vec::new(): the run is never emptied
PushRecordKeepsLines(acc, rec) ==
    IF rec.panic
    THEN [acc EXCEPT !.panic = TRUE, !.runs = Append(@, acc.lines)]
    ELSE [acc EXCEPT !.data = Append(@, Stored(rec)),
                     !.runs = Append(@, acc.lines)]

\* data.push(Box::new(rec)) and the run emptied, unless making rec panicked
PushRecord(acc, rec) ==
    IF rec.panic
    THEN [acc EXCEPT !.panic = TRUE, !.runs = Append(@, acc.lines)]
    ELSE [acc EXCEPT !.data = Append(@, Stored(rec)),
                     !.runs = Append(@, acc.lines),
                     !.lines = <<>>]

CloseRun(metric_type, metric_name, acc) ==
    PushRecord(acc, Record_from_raw(metric_type, metric_name, acc.lines))

\* the MetricType::Histogram and MetricType::Summary arms of MetricFamily::from_raw,
\* from raw[i] on; acc.lines is histogram_lines/summary_lines, acc.runs the
\* arguments of the from_raw calls made so far
RECURSIVE RecordLoop(_, _, _, _, _)
RecordLoop(metric_type, metric_name, raw, i, acc) ==
    IF i > Len(raw) \/ acc.panic THEN acc
    ELSE RecordLoop(metric_type, metric_name, raw, i + 1,
             IF StartsWith(raw[i], metric_name \o Str_count)
             THEN CloseRun(metric_type, metric_name,
                           [acc EXCEPT !.lines = Append(@, raw[i])])
             ELSE [acc EXCEPT !.lines = Append(@, raw[i])])

FamilyPanic ==
    [panic |-> TRUE, metric_type |-> "none", metric_name |-> <<>>, help |-> <<>>,
     data |-> <<>>, runs |-> <<>>]

\* MetricFamily::from_raw
\* raw_iter.next().expect("invalid format"), then the function applied to the line
Expect(raw, i, none, applied) == IF Len(raw) < i THEN none ELSE applied

\* the MetricFamily { ... } the function returns, acc being what the match left
FamilyOf(help, nt, acc) ==
    IF acc.panic THEN FamilyPanic
    ELSE [panic |-> FALSE, metric_type |-> nt.metric_type,
          metric_name |-> nt.name, help |-> help.help,
          data |-> acc.data, runs |-> acc.runs]

NoData == [panic |-> FALSE, lines |-> <<>>, data |-> <<>>, runs |-> <<>>]

\* the match on metric_type, the two header lines being parsed
FamilyMatch(raw, help, nt) ==
    IF help.panic \/ nt.panic THEN FamilyPanic
    ELSE FamilyOf(help, nt,
             IF nt.metric_type = "Gauge" THEN GaugeLoop(raw, 3, NoData)
             ELSE RecordLoop(nt.metric_type, nt.name, raw, 3, NoData))

\* MetricFamily::from_raw
MetricFamily_from_raw(raw) ==
    FamilyMatch(raw,
        Expect(raw, 1, [panic |-> TRUE, help |-> <<>>], metric_help_fron_raw(raw[1])),
        Expect(raw, 2, [panic |-> TRUE, name |-> <<>>, metric_type |-> "none"],
                 metric_name_and_type(raw[2])))

\* a MetricFamily value: what from_raw returns when it returns
Family(f) ==
    [metric_type |-> f.metric_type, metric_name |-> f.metric_name,
     help |-> f.help, data |-> f.data]

(***************************************************************************)
(* The text the model runs on.                                             *)
(***************************************************************************)
Name == <<"m">>

Str_HELP == <<"#", " ", "H", "E", "L", "P">>

Str_TYPE == <<"#", " ", "T", "Y", "P", "E">>

\* # HELP m h
HelpLine == Str_HELP \o <<" ">> \o Name \o <<" ", "h">>

\* # TYPE m <keyword>
TypeLine(keyword) == Str_TYPE \o <<" ">> \o Name \o <<" ">> \o keyword

\* {k1="v1",...,kn="vn"}
RECURSIVE RenderPairs(_)
RenderPairs(pairs) ==
    IF Len(pairs) = 0 THEN <<>>
    ELSE pairs[1].key \o <<"=", "\"">> \o pairs[1].value \o <<"\"">>
         \o (IF Len(pairs) = 1 THEN <<>> ELSE <<",">> \o RenderPairs(Tail(pairs)))

RenderLabels(pairs) == <<"{">> \o RenderPairs(pairs) \o <<"}">>

\* <name> <value>
Unlabeled(name, value) == name \o <<" ">> \o value

\* <name>{k1="v1",...,kn="vn"} <value>
Labeled(name, pairs, value) == name \o RenderLabels(pairs) \o <<" ">> \o value

\* m 1
SampleLine == Unlabeled(Name, <<"1">>)

\* m{le="1"} 1
LabeledLine == Labeled(Name, <<[key |-> Str_le, value |-> <<"1">>]>>, <<"1">>)

\* m_count 2
CountLine == Unlabeled(Name \o Str_count, <<"2">>)

\* m x: neither the unlabeled nor the labeled shape
BadLine == Name \o <<" ", "x">>

IsComment(line) == StartsWith(line, <<"#">>)

IsHelp(line) == StartsWith(line, Str_HELP)

IsType(line) == StartsWith(line, Str_TYPE)

(***************************************************************************)
(* PrometheusData::from_string, one action per pass of its loop over       *)
(* s.lines().  The document is read line by line: read is the prefix       *)
(* consumed so far, every line is drawn from DocLines, and the document    *)
(* may end after any line.                                                 *)
(***************************************************************************)
MaxLines == 6

DocLines ==
    {HelpLine, TypeLine(Str_gauge), TypeLine(Str_histogram),
     SampleLine, LabeledLine, CountLine, BadLine}

Idle == <<>>

Init ==
    /\ pc = "scan"
    /\ arg = Idle
    /\ ret = Idle
    /\ read = <<>>
    /\ metrics = <<>>
    /\ metric_lines = <<>>
    /\ num_comment_lines = 0
    /\ chunks = <<>>

\* line.starts_with('#') and num_comment_lines == 2: one set complete.  When
\* MetricFamily::from_raw panics the call of from_string ends there.
\* Flushed without num_comment_lines = 1: the counter stays at 2
FlushedKeepsCount(line, family) ==
    IF family.panic
    THEN /\ pc' = "panic"
         /\ UNCHANGED <<read, metrics, metric_lines, num_comment_lines, chunks>>
    ELSE /\ metrics' = Append(metrics, Family(family))
         /\ chunks' = Append(chunks, metric_lines)
         /\ metric_lines' = <<line>>
         /\ num_comment_lines' = num_comment_lines
         /\ read' = Append(read, line)
         /\ pc' = pc

\* Flushed with metric_lines = vec![]: the line that closes the family is dropped
FlushedDropsLine(line, family) ==
    IF family.panic
    THEN /\ pc' = "panic"
         /\ UNCHANGED <<read, metrics, metric_lines, num_comment_lines, chunks>>
    ELSE /\ metrics' = Append(metrics, Family(family))
         /\ chunks' = Append(chunks, metric_lines)
         /\ metric_lines' = <<>>
         /\ num_comment_lines' = 1
         /\ read' = Append(read, line)
         /\ pc' = pc

\* the arm num_comment_lines == 2, family being what MetricFamily::from_raw
\* returns for metric_lines
Flushed(line, family) ==
    IF family.panic
    THEN /\ pc' = "panic"
         /\ UNCHANGED <<read, metrics, metric_lines, num_comment_lines, chunks>>
    ELSE /\ metrics' = Append(metrics, Family(family))
         /\ chunks' = Append(chunks, metric_lines)
         /\ metric_lines' = <<line>>
         /\ num_comment_lines' = 1
         /\ read' = Append(read, line)
         /\ pc' = pc

FlushFamily(line) ==
    /\ pc = "scan"
    /\ Len(read) < MaxLines
    /\ IsComment(line)
    /\ num_comment_lines = 2
    /\ Flushed(line, MetricFamily_from_raw(metric_lines))
    /\ UNCHANGED <<arg, ret>>

\* line.starts_with('#') and num_comment_lines != 2
CountComment(line) ==
    /\ pc = "scan"
    /\ Len(read) < MaxLines
    /\ IsComment(line)
    /\ num_comment_lines # 2
    /\ num_comment_lines' = num_comment_lines + 1
    /\ metric_lines' = Append(metric_lines, line)
    /\ read' = Append(read, line)
    /\ UNCHANGED <<pc, arg, ret, metrics, chunks>>

\* the else arm: a line that does not start with '#'
PushLine(line) ==
    /\ pc = "scan"
    /\ Len(read) < MaxLines
    /\ ~IsComment(line)
    /\ metric_lines' = Append(metric_lines, line)
    /\ read' = Append(read, line)
    /\ UNCHANGED <<pc, arg, ret, metrics, num_comment_lines, chunks>>

\* s.lines() is exhausted: PrometheusData { metrics: metrics } is returned
EndOfInput ==
    /\ pc = "scan"
    /\ pc' = "done"
    /\ UNCHANGED <<arg, ret, read, metrics, metric_lines, num_comment_lines, chunks>>

Next ==
    \/ \E line \in DocLines : FlushFamily(line)
    \/ \E line \in DocLines : CountComment(line)
    \/ \E line \in DocLines : PushLine(line)
    \/ EndOfInput

Spec == Init /\ [][Next]_vars

(***************************************************************************)
(* The function-level calls.  Each specification draws the argument of one *)
(* call in its initial state and has one action per function called; the   *)
(* variables of from_string stay as Init leaves them.                      *)
(***************************************************************************)
ScanIdle ==
    /\ read = <<>>
    /\ metrics = <<>>
    /\ metric_lines = <<>>
    /\ num_comment_lines = 0
    /\ chunks = <<>>

scan_vars == <<read, metrics, metric_lines, num_comment_lines, chunks>>

\* the sequences of at most n records of Pairs with pairwise distinct keys
DistinctSeqs(Pairs, n) ==
    {q \in UNION {[1..k -> Pairs] : k \in 0..n} :
        \A i, j \in DOMAIN q : i # j => q[i].key # q[j].key}

(***************************************************************************)
(* SpecLine: MetricLike::parse_from_string on one sample line, written     *)
(* from a name, a list of labels (or none) and a value.                    *)
(***************************************************************************)
MaxLabels == 2

LabelKeys == {<<"a">>, <<"k", "2">>, Str_le}

\* x, go1 and "a 1": a letter, letters then a digit, a blank inside
LabelValues == {<<"x">>, <<"g", "o", "1">>, <<"a", " ", "1">>}

\* 1, -1.5, 1e-5 and NaN
SampleValues == {<<"1">>, <<"-", "1", ".", "5">>, <<"1", "e", "-", "5">>, <<"N", "a", "N">>}

LineInputs ==
    [name : {Name},
     labeled : BOOLEAN,
     pairs : DistinctSeqs([key : LabelKeys, value : LabelValues], MaxLabels),
     value : SampleValues]

LineOf(a) ==
    IF a.labeled THEN Labeled(a.name, a.pairs, a.value) ELSE Unlabeled(a.name, a.value)

InitLine ==
    /\ pc = "call"
    /\ arg \in {a \in LineInputs : a.labeled \/ a.pairs = <<>>}
    /\ ret = Idle
    /\ ScanIdle

CallParse ==
    /\ pc = "call"
    /\ ret' = parse_from_string(LineOf(arg))
    /\ pc' = "parsed"
    /\ UNCHANGED <<arg, scan_vars>>

SpecLine == InitLine /\ [][CallParse]_vars

(***************************************************************************)
(* SpecRecord: Summary::from_raw and Histogram::from_raw on one run: the   *)
(* quantile or bucket lines, then the _sum and the _count line.            *)
(***************************************************************************)
MaxBuckets == 2

Str_bucket == <<"_", "b", "u", "c", "k", "e", "t">>

Str_h == <<"h">>

\* the label-set the lines of a run share: none, h="x", h="a 1"
CommonLabels ==
    {<<>>, <<[key |-> Str_h, value |-> <<"x">>]>>,
     <<[key |-> Str_h, value |-> <<"a", " ", "1">>]>>}

\* 1, 0.5 and +Inf
ReservedValues == {<<"1">>, <<"0", ".", "5">>, <<"+", "I", "n", "f">>}

RecordInputs ==
    [kind : {"Summary", "Histogram"},
     common : CommonLabels,
     reserved : DistinctSeqs([key : ReservedValues, value : {<<"2">>, <<"N", "a", "N">>}],
                             MaxBuckets),
     first : BOOLEAN,
     sum : {<<"1", "2">>, <<"3", ".", "5">>},
     count : {<<"2">>}]

ReservedKey(kind) == IF kind = "Summary" THEN Str_quantile ELSE Str_le

\* the quantile line or bucket line of a.reserved[i]: the reserved label stands
\* first or last among the labels
ReservedLine(a, i) ==
    Labeled(IF a.kind = "Summary" THEN Name ELSE Name \o Str_bucket,
            IF a.first
            THEN <<[key |-> ReservedKey(a.kind), value |-> a.reserved[i].key]>> \o a.common
            ELSE a.common \o <<[key |-> ReservedKey(a.kind), value |-> a.reserved[i].key]>>,
            a.reserved[i].value)

TotalLine(name, common, value) ==
    IF common = <<>> THEN Unlabeled(name, value) ELSE Labeled(name, common, value)

RunOf(a) ==
    [i \in 1..Len(a.reserved) |-> ReservedLine(a, i)]
    \o <<TotalLine(Name \o Str_sum, a.common, a.sum),
         TotalLine(Name \o Str_count, a.common, a.count)>>

InitRecord ==
    /\ pc = "call"
    /\ arg \in RecordInputs
    /\ ret = Idle
    /\ ScanIdle

CallSummary ==
    /\ pc = "call"
    /\ arg.kind = "Summary"
    /\ ret' = Summary_from_raw(Name, RunOf(arg))
    /\ pc' = "summary"
    /\ UNCHANGED <<arg, scan_vars>>

CallHistogram ==
    /\ pc = "call"
    /\ arg.kind = "Histogram"
    /\ ret' = Histogram_from_raw(Name, RunOf(arg))
    /\ pc' = "histogram"
    /\ UNCHANGED <<arg, scan_vars>>

RecordNext == CallSummary \/ CallHistogram

SpecRecord == InitRecord /\ [][RecordNext]_vars

(***************************************************************************)
(* SpecFamily: MetricFamily::from_raw on one chunk: a HELP line, a TYPE    *)
(* line, then sample lines.                                                *)
(***************************************************************************)
MaxSamples == 4

Str_untyped == <<"u", "n", "t", "y", "p", "e", "d">>

Keywords == {Str_gauge, Str_counter, Str_histogram, Str_summary, Str_untyped}

\* the TYPE line written with runs of blanks and a tab between its tokens
WideTypeLine(keyword) ==
    <<"#", " ", " ", "T", "Y", "P", "E", "\t">> \o Name \o <<" ", " ">> \o keyword

FamilyLines == {SampleLine, LabeledLine, CountLine, BadLine}

FamilyInputs ==
    [keyword : Keywords,
     wide : BOOLEAN,
     samples : UNION {[1..k -> FamilyLines] : k \in 0..MaxSamples}]

ChunkOf(a) ==
    <<HelpLine, IF a.wide THEN WideTypeLine(a.keyword) ELSE TypeLine(a.keyword)>>
    \o a.samples

InitFamily ==
    /\ pc = "call"
    /\ arg \in FamilyInputs
    /\ ret = Idle
    /\ ScanIdle

CallFamily ==
    /\ pc = "call"
    /\ ret' = MetricFamily_from_raw(ChunkOf(arg))
    /\ pc' = "family"
    /\ UNCHANGED <<arg, scan_vars>>

SpecFamily == InitFamily /\ [][CallFamily]_vars

(***************************************************************************)
(* Properties of the function-level calls.                                 *)
(***************************************************************************)
\* the mapping a list of pairs with distinct keys writes down
Written(pairs) ==
    [k \in {pairs[i].key : i \in DOMAIN pairs} |->
        pairs[CHOOSE i \in DOMAIN pairs : pairs[i].key = k].value]

\* C2: parse_from_string returns, for an unlabeled line, the value written after
\* the blank and no labels, and for a labeled line that value and exactly the
\* labels written between the braces, whatever the label values are.
ParseReturnsWrittenFields ==
    pc = "parsed" =>
        ret = [panic |-> FALSE,
               value |-> arg.value,
               labels |-> IF arg.labeled THEN Some(Written(arg.pairs)) ELSE None]

\* C3: the quantiles map Summary::from_raw returns has one key per quantile
\* line, the quantile label's value, mapped to the sample value of that line.
SummaryQuantilesOfLines ==
    pc = "summary" => ~ret.panic /\ ret.quantiles = Written(arg.reserved)

\* C4: the buckets map Histogram::from_raw returns has one key per bucket line,
\* the le label's value, mapped to the sample value of that line, wherever the
\* le label stands among the labels of the line.
HistogramBucketsOfLines ==
    pc = "histogram" => ~ret.panic /\ ret.buckets = Written(arg.reserved)

\* a histogram built from two bucket lines whose le label stands last, after
\* another label
HistogramBucketsWitness ==
    /\ pc = "histogram"
    /\ Len(arg.reserved) >= 2
    /\ arg.common # <<>>
    /\ ~arg.first
    /\ Cardinality(DOMAIN ret.buckets) >= 2

\* C5: the record returned for a run has the value of the _sum line as sum, the
\* value of the _count line as count, and as labels the label pairs of the
\* quantile or bucket lines without the reserved label.
RecordKeepsSumCountLabels ==
    pc \in {"summary", "histogram"} =>
        /\ ~ret.panic
        /\ ret.sum = arg.sum
        /\ ret.count = arg.count
        /\ ret.labels = Some(IF arg.reserved = <<>> THEN EmptyMap ELSE Written(arg.common))
        /\ ReservedKey(arg.kind) \notin DOMAIN ret.labels.map

\* the type and the kind of data entries each keyword of a TYPE line stands for
TypeOfKeyword(keyword) ==
    IF keyword \in {Str_gauge, Str_counter} THEN "Gauge"
    ELSE IF keyword = Str_histogram THEN "Histogram"
    ELSE IF keyword = Str_summary THEN "Summary"
    ELSE "unknown"

KindOfType(type) == IF type = "Gauge" THEN "Metric" ELSE type

\* C6: MetricFamily::from_raw takes the type from the 4th token of the TYPE
\* line (gauge and counter give Gauge, histogram Histogram, summary Summary),
\* fails on any other keyword, and every entry of data is of the kind of the
\* type.
TypeChosenByKeyword ==
    pc = "family" =>
        IF TypeOfKeyword(arg.keyword) = "unknown" THEN ret.panic
        ELSE /\ arg.samples = <<>> => ~ret.panic
             /\ ~ret.panic =>
                    /\ ret.metric_type = TypeOfKeyword(arg.keyword)
                    /\ \A i \in DOMAIN ret.data :
                           ret.data[i].type = KindOfType(ret.metric_type)

\* a counter family, its TYPE line written with runs of blanks, returned as a
\* Gauge with two samples or more
TypeChosenWitness ==
    /\ pc = "family"
    /\ arg.keyword = Str_counter
    /\ arg.wide
    /\ ~ret.panic
    /\ ret.metric_type = "Gauge"
    /\ Len(ret.data) >= 2

\* the positions, among the sample lines, of the lines that start with m_count
CountPositions(samples) ==
    {i \in DOMAIN samples : StartsWith(samples[i], Name \o Str_count)}

\* the k-th smallest element of P
Nth(P, k) == CHOOSE i \in P : Cardinality({j \in P : j < i}) = k - 1

\* the lines after the (k-1)-th m_count line up to and including the k-th
ExpectedRun(samples, k) ==
    SubSeq(samples,
           IF k = 1 THEN 1 ELSE Nth(CountPositions(samples), k - 1) + 1,
           Nth(CountPositions(samples), k))

ExpectedRecord(a, k) ==
    Record_from_raw(TypeOfKeyword(a.keyword), Name, ExpectedRun(a.samples, k))

\* C8: for a Histogram or Summary family, from_raw emits one record per line
\* that starts with m_count, in order, the k-th built from the lines after the
\* (k-1)-th such line up to and including the k-th; the lines after the last
\* m_count line enter no record and raise no error: the call fails only when
\* the parser of one of these runs fails.
OneRecordPerCountLine ==
    (pc = "family" /\ arg.keyword \in {Str_histogram, Str_summary}) =>
        LET n == Cardinality(CountPositions(arg.samples))
        IN  IF \E k \in 1..n : ExpectedRecord(arg, k).panic THEN ret.panic
            ELSE /\ ~ret.panic
                 /\ Len(ret.data) = n
                 /\ Len(ret.runs) = n
                 /\ \A k \in 1..n :
                        /\ ret.runs[k] = ExpectedRun(arg.samples, k)
                        /\ ret.data[k] = Stored(ExpectedRecord(arg, k))

\* a histogram family of two runs, the first of two lines, returned although a
\* malformed line follows its last m_count line
OneRecordWitness ==
    /\ pc = "family"
    /\ arg.keyword = Str_histogram
    /\ ~ret.panic
    /\ Len(ret.data) = 2
    /\ Len(ret.runs[1]) = 2
    /\ arg.samples[Len(arg.samples)] = BadLine

(***************************************************************************)
(* Properties of PrometheusData::from_string.                              *)
(***************************************************************************)
\* a sample line that matches neither regular expression
Malformed(line) == ~IsComment(line) /\ parse_from_string(line).panic

\* lines is the start of a document whose '#' lines are HELP and TYPE lines in
\* turn: the first line is a HELP line, a TYPE line directly follows each HELP
\* line, and no TYPE line stands elsewhere
HeadedPrefix(lines) ==
    /\ lines # <<>> => IsHelp(lines[1])
    /\ \A i \in DOMAIN lines :
           /\ IsComment(lines[i]) => IsHelp(lines[i]) \/ IsType(lines[i])
           /\ IsType(lines[i]) => i > 1 /\ IsHelp(lines[i - 1])
           /\ IsHelp(lines[i]) => i = Len(lines) \/ IsType(lines[i + 1])

\* lines is a document of one or more families, each a HELP line, a TYPE line
\* with a known keyword, then well-formed sample lines
FamilyDocument(lines) ==
    /\ lines # <<>>
    /\ HeadedPrefix(lines)
    /\ ~IsHelp(lines[Len(lines)])
    /\ \A i \in DOMAIN lines :
           /\ IsType(lines[i]) => ~metric_name_and_type(lines[i]).panic
           /\ ~Malformed(lines[i])

HelpCount(lines) == Cardinality({i \in DOMAIN lines : IsHelp(lines[i])})

\* C1: from_string returns, for a document of N >= 1 families, a document
\* whose metrics list has exactly N families.
AllFamiliesReturned ==
    (pc = "done" /\ FamilyDocument(read)) => Len(metrics) = HelpCount(read)

\* C7: from_string returns no document for an input that holds a malformed
\* sample line, wherever the line stands.
MalformedLineIsFatal ==
    pc = "done" => \A i \in DOMAIN read : ~Malformed(read[i])

\* the arguments of the calls of MetricFamily::from_raw made so far: those that
\* returned and the one that panicked
Passed == chunks \o (IF pc = "panic" THEN <<metric_lines>> ELSE <<>>)

\* c begins with a HELP line, has a TYPE line as second line and holds no
\* second HELP line
ChunkIsFamily(c) ==
    /\ Len(c) >= 2
    /\ IsHelp(c[1])
    /\ IsType(c[2])
    /\ \A i \in 2..Len(c) : ~IsHelp(c[i])

RECURSIVE Concat(_)
Concat(seqs) == IF seqs = <<>> THEN <<>> ELSE Head(seqs) \o Concat(Tail(seqs))

\* the line of the document that follows the k-th flushed chunk
LineAfterChunk(k) == read[Len(Concat(SubSeq(chunks, 1, k))) + 1]

\* C9 as stated: for every document, every chunk passed to
\* MetricFamily::from_raw begins with a HELP line, has a TYPE line as its
\* second line, holds no second HELP line and ends right before the next HELP
\* line of the document.
ChunksAreFamilies ==
    /\ \A k \in DOMAIN Passed : ChunkIsFamily(Passed[k])
    /\ \A k \in DOMAIN chunks : IsHelp(LineAfterChunk(k))

\* C9 as amended: the same, for the documents whose '#' lines are HELP and
\* TYPE lines in turn, the first line a HELP line and each TYPE line directly
\* after its HELP line.
HeadedChunksAreFamilies == HeadedPrefix(read) => ChunksAreFamilies

\* a family with a sample line flushed at the HELP line of the next family
HeadedChunksWitness ==
    /\ HeadedPrefix(read)
    /\ Len(chunks) >= 1
    /\ Len(chunks[1]) >= 3

CommentCount(lines) == Cardinality({i \in DOMAIN lines : IsComment(lines[i])})

\* C10: at every step of the scan the flushed chunks, in flush order, followed
\* by the family buffer are the lines read so far; each flushed chunk holds
\* exactly two '#' lines; the counter stays within 0..2; and the i-th family of
\* the result is built from the i-th chunk.
ScanKeepsLines ==
    /\ Concat(chunks) \o metric_lines = read
    /\ \A k \in DOMAIN chunks : CommentCount(chunks[k]) = 2
    /\ num_comment_lines \in 0..2
    /\ Len(metrics) = Len(chunks)
    /\ \A k \in DOMAIN chunks : metrics[k] = Family(MetricFamily_from_raw(chunks[k]))

\* two families flushed, the third one begun
ScanKeepsLinesWitness ==
    /\ pc = "scan"
    /\ Len(chunks) = 2
    /\ Len(metrics) = 2
    /\ metric_lines # <<>>

====
